---- MODULE Spec2Model ----
(***************************************************************************)
(* Model of the poz Discord bot (src/src/main.rs): the startup sequence,   *)
(* the gateway event loop of main, and the per-event handler task          *)
(* handle_event with its command dispatch.  The external collaborators     *)
(* (gateway shard, chat HTTP client, songbird voice manager, the           *)
(* voicetext synthesis call) appear as nondeterministic inputs: what the   *)
(* gateway yields next, how a join / synthesis / send resolves.            *)
(***************************************************************************)
EXTENDS Integers, Sequences, FiniteSets, TLC

VARIABLES
    env,        \* names of the environment variables that are set
    mainPc,     \* position of main: "startup", "loop", "failed", "returned"
    tasks,      \* one record per spawned handle_event task, in spawn order
    cache,      \* events the in-memory cache was updated with, in order
    warnings,   \* "error receiving event" warnings logged, by is_fatal() of the source
    sent,       \* create_message requests issued to the chat API, in order
    connected,  \* guilds songbird holds a voice connection for
    trackdata,  \* StateRef.trackdata: guilds that have a TrackHandle entry
    voice       \* <<guild, kind>> of the voice updates songbird.process has seen

vars == <<env, mainPc, tasks, cache, warnings, sent, connected, trackdata, voice>>

----------------------------------------------------------------------------
(* Bounds of the model *)

\* number of events the gateway delivers successfully
MaxEvents == 2
\* number of non-fatal receive errors the gateway reports
MaxRecvErrors == 1
\* longest audio buffer the synthesis call returns
MaxAudioLen == 2

----------------------------------------------------------------------------
(* Values *)

EnvNames == {"DISCORD_TOKEN", "VOICETEXT_API"}

NoGuild == "None"
Guilds == {"g1"}

\* msg.channel_id: a direct-message channel for a message without guild,
\* a guild text channel otherwise
ChannelOf(guild) == IF guild = NoGuild THEN "dm" ELSE "text-" \o guild

Commands == {"!ping", "!join", "!leave", "!test"}

\* the gateway events songbird.process acts on
VoiceUpdateKinds == {"VoiceStateUpdate", "VoiceServerUpdate"}

\* contents that are no command literal: case, whitespace, suffix variants,
\* the empty content of an embed-only message, the bot's own reply text
OtherContents == {"!PING", "!ping ", " !join", "!testing", "", "Pong!"}

Message(content, guild) ==
    [kind |-> "MessageCreate", content |-> content, guild_id |-> guild,
     channel_id |-> ChannelOf(guild)]

OtherEvent(kind, guild) ==
    [kind |-> kind, content |-> "", guild_id |-> guild, channel_id |-> ChannelOf(guild)]

Events ==
    {Message(c, g) : c \in Commands, g \in Guilds \cup {NoGuild}}
    \cup {Message(c, g) : c \in OtherContents, g \in Guilds}
    \cup {OtherEvent("Ready", NoGuild)}
    \cup {OtherEvent("VoiceStateUpdate", g) : g \in Guilds}

Bytes == {0, 255}

RECURSIVE SeqsUpTo(_, _)
SeqsUpTo(S, n) ==
    IF n = 0 THEN {<<>>}
    ELSE LET shorter == SeqsUpTo(S, n - 1)
         IN shorter \cup {Append(s, x) : s \in {t \in shorter : Len(t) = n - 1}, x \in S}

AudioBuffers == SeqsUpTo(Bytes, MaxAudioLen)

\* HTTP status codes a failed synthesis call may carry; 599 has no reason phrase
StatusCodes == {404, 500, 599}
NoStatus == -1

\* Result<Bytes, Error> of get_audio_data
SynthResponses ==
    {[ok |-> TRUE, data |-> b, status |-> NoStatus] : b \in AudioBuffers}
    \cup {[ok |-> FALSE, data |-> <<>>, status |-> s] : s \in StatusCodes \cup {NoStatus}}

\* {:?} of the JoinError variants songbird.join may return
JoinErrors == {"Dropped", "TimedOut"}
JoinResults == {"Ok"} \cup JoinErrors

----------------------------------------------------------------------------
(* Pure helpers of handle_event *)

\* Display of one decimal digit
DigitChar(d) ==
    CASE d = 0 -> "0" [] d = 1 -> "1" [] d = 2 -> "2" [] d = 3 -> "3" [] d = 4 -> "4"
      [] d = 5 -> "5" [] d = 6 -> "6" [] d = 7 -> "7" [] d = 8 -> "8" [] d = 9 -> "9"

\* Display of an unsigned integer given by its decimal digits, most significant first
RECURSIVE FormatDigits(_)
FormatDigits(ds) ==
    IF ds = <<>> THEN "" ELSE DigitChar(Head(ds)) \o FormatDigits(Tail(ds))

\* decimal digits of a natural number, most significant first
RECURSIVE DigitsOf(_)
DigitsOf(n) == IF n < 10 THEN <<n>> ELSE Append(DigitsOf(n \div 10), n % 10)

\* the literal 1001440920299905096 (a u64, held as its decimal digits)
VoiceChannelId == <<1,0,0,1,4,4,0,9,2,0,2,9,9,9,0,5,0,9,6>>

\* NonZeroU64::new(n).is_some()
IsNonZero(ds) == \E i \in 1..Len(ds) : ds[i] # 0

\* MatchContent comparing without regard to ASCII case
MatchContentIgnoreCase(content) ==
    CASE content \in {"!ping", "!PING"} -> "ping"
      [] content = "!join" -> "join"
      [] content = "!leave" -> "leave"
      [] content = "!test" -> "test"
      [] OTHER -> "none"

\* the arm of `match msg.content.as_str()` a content selects
MatchContent(content) ==
    CASE content = "!ping" -> "ping"
      [] content = "!join" -> "join"
      [] content = "!leave" -> "leave"
      [] content = "!test" -> "test"
      [] OTHER -> "none"

\* the arm of `match event.deref()` an event selects
MatchEvent(e) ==
    CASE e.kind = "Ready" -> "ready"
      [] e.kind = "MessageCreate" -> MatchContent(e.content)
      [] OTHER -> "none"

PingContentLower == "pong!"
\* a reply to !ping that is itself the command literal
PingContentEcho == "!ping"
PingContent == "Pong!"
LeaveContentLeft == "Left!"
LeaveContent == "Pong!"
TestContent == "test!"
TestFileName == "test.ogg"
NoGuildError == "Can't join a non-guild channel."
ZeroChannelError == "Joined voice channel must have nonzero ID."

\* msg.guild_id.ok_or(..) taking the error branch
GuildMissingNever(e) == FALSE
GuildMissing(e) == e.guild_id = NoGuild

\* JoinContent leaving the failure detail out
JoinContentNoDetail(result, channel_id) ==
    IF result = "Ok"
    THEN "Joined <#" \o FormatDigits(channel_id) \o ">!"
    ELSE "Failed to join <#" \o FormatDigits(channel_id) \o ">!"

\* content of the reply to !join, from the result of songbird.join
JoinContent(result, channel_id) ==
    IF result = "Ok"
    THEN "Joined <#" \o FormatDigits(channel_id) \o ">!"
    ELSE "Failed to join <#" \o FormatDigits(channel_id) \o ">! Why: " \o result

\* ToVec filling the vector back to front
ToVecReversed(data) == [i \in 1..Len(data) |-> data[Len(data) + 1 - i]]

\* Bytes::to_vec: a fresh vector with the same elements
ToVec(data) == [i \in 1..Len(data) |-> data[i]]

\* Attachment::from_bytes(filename, file, id)
AttachmentFromBytes(filename, file, id) ==
    [filename |-> filename, file |-> file, id |-> id]

TestAttachments(audio_data) ==
    << AttachmentFromBytes(TestFileName, ToVec(audio_data), 1) >>

\* StatusCode::canonical_reason for the codes of the model
CanonicalReason(status) ==
    CASE status = 404 -> "Not Found"
      [] status = 500 -> "Internal Server Error"
      [] OTHER -> "None"

UnknownReason == "<unknown status code>"
ApiErrorTitle == "APIリクエストエラー"
\* the title "APIのリクエストに失敗しました。", romanised (the string syntax
\* admits no hiragana or kanji)
RequestFailedTitle == "API no rikuesuto ni shippai shimashita."
EmbedColor == 16711680

\* StatusDescription without the fallback for a missing reason phrase
StatusDescriptionNoFallback(status) ==
    FormatDigits(DigitsOf(status)) \o ": "
        \o (IF CanonicalReason(status) = "None" THEN "" ELSE CanonicalReason(status))

StatusDescription(status) ==
    FormatDigits(DigitsOf(status)) \o ": "
        \o (IF CanonicalReason(status) = "None" THEN UnknownReason
            ELSE CanonicalReason(status))

\* ErrorEmbed with the two titles exchanged
ErrorEmbedTitlesSwapped(status) ==
    IF status # NoStatus
    THEN [color |-> EmbedColor, title |-> RequestFailedTitle,
          description |-> << StatusDescription(status) >>]
    ELSE [color |-> EmbedColor, title |-> ApiErrorTitle,
          description |-> <<>>]

\* the embed built from a failed synthesis call (err.status() is status);
\* description is an Option: <<>> when absent
ErrorEmbed(status) ==
    IF status # NoStatus
    THEN [color |-> EmbedColor, title |-> ApiErrorTitle,
          description |-> << StatusDescription(status) >>]
    ELSE [color |-> EmbedColor, title |-> RequestFailedTitle,
          description |-> <<>>]

\* a create_message request
Request(task, channel_id, content, attachments, embeds) ==
    [task |-> task, channel_id |-> channel_id, content |-> content,
     attachments |-> attachments, embeds |-> embeds]

\* how a failed send ends the handler: `.await?` returns the error,
\* `.await.unwrap()` on the attachment path panics the task
SendFailure(branch) == IF branch = "testOk" THEN "Panic" ELSE "Err"

----------------------------------------------------------------------------
(* State *)

\* the task tokio::spawn(handle_event(event, ..)) creates
NewTask(e) ==
    [event |-> e,
     pc |-> "spawned",        \* "spawned", "joining", "synth", "sending", "done"
     result |-> "Running",    \* "Running", "Ok", "Err", "Panic"
     error |-> "",            \* the error the handler returned or panicked with
     branch |-> "none",       \* the arm that issued the pending send
     joins |-> <<>>,          \* songbird.join calls made: [guild_id, channel_id]
     joinResult |-> "None",   \* what songbird.join resolved to
     synths |-> <<>>,         \* get_audio_data calls made
     response |-> <<>>,       \* << what get_audio_data resolved to >>
     sendResult |-> "None",   \* what the create_message request resolved to
     sb |-> "none",           \* the songbird.process task: "none", "spawned", "done"
     forwarded |-> 0]         \* times songbird.process ran on the event

Finished(t, result, error) ==
    [t EXCEPT !.pc = "done", !.result = result, !.error = error]

\* the arguments of the get_audio_data call
SynthCall == [text |-> "テスト", format |-> "Ogg", timeout_secs |-> 1]

Init ==
    /\ env \in SUBSET EnvNames
    /\ mainPc = "startup"
    /\ tasks = <<>>
    /\ cache = <<>>
    /\ warnings = [nonfatal |-> 0, fatal |-> 0]
    /\ sent = <<>>
    /\ connected = {}
    /\ trackdata = {}
    /\ voice = {}

----------------------------------------------------------------------------
(* main *)

\* LoopReady for a loop that awaits each handler before the next next_event()
LoopReadyAwaitsHandlers ==
    mainPc = "loop" /\ \A i \in 1..Len(tasks) : tasks[i].pc = "done"

\* the loop is at shard.next_event().await: it spawns handlers and never
\* awaits them, so it is there whenever main is in the loop
LoopReady == mainPc = "loop"

\* main up to the loop: read DISCORD_TOKEN, fetch the bot's own user
Startup(identityOk) ==
    /\ mainPc = "startup"
    /\ mainPc' = IF "DISCORD_TOKEN" \in env /\ identityOk THEN "loop" ELSE "failed"
    /\ UNCHANGED <<env, tasks, cache, warnings, sent, connected, trackdata, voice>>

\* shard.next_event() yields Ok(event): update the cache, spawn the handler
\* Receive spawning the handler without updating the cache first
ReceiveNoCacheUpdate(e) ==
    /\ LoopReady
    /\ tasks' = Append(tasks, NewTask(e))
    /\ UNCHANGED <<env, mainPc, cache, warnings, sent, connected, trackdata, voice>>

Receive(e) ==
    /\ LoopReady
    /\ cache' = Append(cache, e)
    /\ tasks' = Append(tasks, NewTask(e))
    /\ UNCHANGED <<env, mainPc, warnings, sent, connected, trackdata, voice>>

\* the gateway delivers one of its first MaxEvents events
ReceiveEvent(e) ==
    /\ Len(tasks) < MaxEvents
    /\ Receive(e)

\* shard.next_event() yields Err(source), source.is_fatal() is false
ReceiveNonFatal ==
    /\ LoopReady
    /\ warnings.nonfatal < MaxRecvErrors
    /\ warnings' = [warnings EXCEPT !.nonfatal = @ + 1]
    /\ UNCHANGED <<env, mainPc, tasks, cache, sent, connected, trackdata, voice>>

\* ReceiveFatal going on with the loop as for a non-fatal error
ReceiveFatalContinues ==
    /\ mainPc = "loop"
    /\ warnings.fatal < 1
    /\ warnings' = [warnings EXCEPT !.fatal = @ + 1]
    /\ UNCHANGED <<env, mainPc, tasks, cache, sent, connected, trackdata, voice>>

\* shard.next_event() yields Err(source), source.is_fatal() is true: break,
\* main returns Ok(()) and the runtime shuts down with it
ReceiveFatal ==
    /\ LoopReady
    /\ warnings' = [warnings EXCEPT !.fatal = @ + 1]
    /\ mainPc' = "returned"
    /\ UNCHANGED <<env, tasks, cache, sent, connected, trackdata, voice>>

----------------------------------------------------------------------------
(* handle_event *)

\* tasks run only while the runtime is up, that is while main is in its loop
Alive(i) == mainPc = "loop" /\ i \in DOMAIN tasks

\* handle_event from its start to its first suspension: the task record and
\* the create_message requests it issues
HandlerStart(t0, i) ==
    LET t == [t0 EXCEPT !.sb = "spawned"]
        e == t.event
        arm == MatchEvent(e)
    IN CASE arm = "ping" ->
              [task |-> [t EXCEPT !.pc = "sending", !.branch = "ping"],
               send |-> << Request(i, e.channel_id, PingContent, <<>>, <<>>) >>]
         [] arm = "leave" ->
              [task |-> [t EXCEPT !.pc = "sending", !.branch = "leave"],
               send |-> << Request(i, e.channel_id, LeaveContent, <<>>, <<>>) >>]
         [] arm = "join" ->
              IF GuildMissing(e)
              THEN [task |-> Finished(t, "Err", NoGuildError), send |-> <<>>]
              ELSE IF ~IsNonZero(VoiceChannelId)
              THEN [task |-> Finished(t, "Err", ZeroChannelError), send |-> <<>>]
              ELSE [task |-> [t EXCEPT !.pc = "joining",
                                       !.joins = Append(@, [guild_id |-> e.guild_id,
                                                            channel_id |-> VoiceChannelId])],
                    send |-> <<>>]
         [] arm = "test" ->
              IF "VOICETEXT_API" \notin env
              THEN [task |-> Finished(t, "Panic", "NotPresent"), send |-> <<>>]
              ELSE [task |-> [t EXCEPT !.pc = "synth", !.synths = Append(@, SynthCall)],
                    send |-> <<>>]
         [] OTHER ->
              [task |-> Finished(t, "Ok", ""), send |-> <<>>]

Dispatch(i) ==
    /\ Alive(i)
    /\ tasks[i].pc = "spawned"
    /\ LET r == HandlerStart(tasks[i], i)
       IN /\ tasks' = [tasks EXCEPT ![i] = r.task]
          /\ sent' = sent \o r.send
    /\ UNCHANGED <<env, mainPc, cache, warnings, connected, trackdata, voice>>

\* SongbirdProcess for a handler that forwards from its MessageCreate arm only
SongbirdProcessMessagesOnly(i) ==
    /\ Alive(i)
    /\ tasks[i].sb = "spawned"
    /\ tasks[i].event.kind = "MessageCreate"
    /\ tasks' = [tasks EXCEPT ![i].sb = "done", ![i].forwarded = @ + 1]
    /\ UNCHANGED <<env, mainPc, cache, warnings, sent, connected, trackdata, voice>>

\* the task spawned at the top of handle_event: state.songbird.process(&event)
SongbirdProcess(i) ==
    /\ Alive(i)
    /\ tasks[i].sb = "spawned"
    /\ tasks' = [tasks EXCEPT ![i].sb = "done", ![i].forwarded = @ + 1]
    /\ voice' = IF tasks[i].event.kind \in VoiceUpdateKinds
                THEN voice \cup {<<tasks[i].event.guild_id, tasks[i].event.kind>>}
                ELSE voice
    /\ UNCHANGED <<env, mainPc, cache, warnings, sent, connected, trackdata>>

\* AfterJoin issuing the reply twice
AfterJoinRepliesTwice(t, i, result) ==
    [task |-> [t EXCEPT !.pc = "sending", !.branch = "join", !.joinResult = result],
     send |-> << Request(i, t.event.channel_id,
                         JoinContent(result, VoiceChannelId), <<>>, <<>>),
                 Request(i, t.event.channel_id,
                         JoinContent(result, VoiceChannelId), <<>>, <<>>) >>]

\* handle_event from the resolution of songbird.join to the next suspension
AfterJoin(t, i, result) ==
    [task |-> [t EXCEPT !.pc = "sending", !.branch = "join", !.joinResult = result],
     send |-> << Request(i, t.event.channel_id,
                         JoinContent(result, VoiceChannelId), <<>>, <<>>) >>]

\* state.songbird.join(guild_id, channel_id) resolves; the reply is built and sent
JoinResolve(i, result) ==
    /\ Alive(i)
    /\ tasks[i].pc = "joining"
    /\ connected' = IF result = "Ok" THEN connected \cup {tasks[i].event.guild_id}
                    ELSE connected
    /\ LET r == AfterJoin(tasks[i], i, result)
       IN /\ tasks' = [tasks EXCEPT ![i] = r.task]
          /\ sent' = sent \o r.send
    /\ UNCHANGED <<env, mainPc, cache, warnings, trackdata, voice>>

\* the request the !test arm issues for a synthesis response
TestRequest(i, channel_id, response) ==
    IF response.ok
    THEN Request(i, channel_id, TestContent, TestAttachments(response.data), <<>>)
    ELSE Request(i, channel_id, "", <<>>, << ErrorEmbed(response.status) >>)

\* AfterSynth returning a synthesis error to the caller instead of matching on it
AfterSynthPropagating(t, i, response) ==
    IF response.ok
    THEN [task |-> [t EXCEPT !.pc = "sending", !.branch = "testOk",
                             !.response = << response >>],
          send |-> << TestRequest(i, t.event.channel_id, response) >>]
    ELSE [task |-> Finished([t EXCEPT !.response = << response >>],
                            "Err", "synthesis failed"),
          send |-> <<>>]

\* handle_event from the resolution of get_audio_data to the next suspension
AfterSynth(t, i, response) ==
    [task |-> [t EXCEPT !.pc = "sending",
                        !.branch = IF response.ok THEN "testOk" ELSE "testErr",
                        !.response = << response >>],
     send |-> << TestRequest(i, t.event.channel_id, response) >>]

\* get_audio_data resolves; `match response` builds the reply and sends it
SynthResolve(i, response) ==
    /\ Alive(i)
    /\ tasks[i].pc = "synth"
    /\ LET r == AfterSynth(tasks[i], i, response)
       IN /\ tasks' = [tasks EXCEPT ![i] = r.task]
          /\ sent' = sent \o r.send
    /\ UNCHANGED <<env, mainPc, cache, warnings, connected, trackdata, voice>>

\* handle_event from the resolution of its create_message request to its end
AfterSend(t, ok) ==
    IF ok THEN Finished([t EXCEPT !.sendResult = "Ok"], "Ok", "")
    ELSE Finished([t EXCEPT !.sendResult = "Failed"], SendFailure(t.branch), "send failed")

\* the pending create_message request resolves
SendResolve(i, ok) ==
    /\ Alive(i)
    /\ tasks[i].pc = "sending"
    /\ tasks' = [tasks EXCEPT ![i] = AfterSend(@, ok)]
    /\ UNCHANGED <<env, mainPc, cache, warnings, sent, connected, trackdata, voice>>

----------------------------------------------------------------------------

(* The whole program: startup, the event loop and the handler tasks it   *)
(* spawns.  The gateway delivers events of LoopEvents; joins, synthesis   *)
(* calls and sends resolve to one success and one failure each.           *)

LoopEvents ==
    {Message("!ping", g) : g \in Guilds}
    \cup {Message("!join", g) : g \in Guilds \cup {NoGuild}}
    \cup {Message("!leave", g) : g \in Guilds}
    \cup {Message("!test", g) : g \in Guilds}
    \cup {OtherEvent("Ready", NoGuild)}

LoopSynthResponses ==
    {[ok |-> TRUE, data |-> <<0, 255>>, status |-> NoStatus],
     [ok |-> FALSE, data |-> <<>>, status |-> 500]}

LoopJoinResults == {"Ok", "TimedOut"}

Next ==
    \/ \E identityOk \in BOOLEAN : Startup(identityOk)
    \/ \E e \in LoopEvents : ReceiveEvent(e)
    \/ ReceiveNonFatal
    \/ ReceiveFatal
    \/ \E i \in 1..Len(tasks) : Dispatch(i)
    \/ \E i \in 1..Len(tasks) : SongbirdProcess(i)
    \/ \E i \in 1..Len(tasks), r \in LoopJoinResults : JoinResolve(i, r)
    \/ \E i \in 1..Len(tasks), r \in LoopSynthResponses : SynthResolve(i, r)
    \/ \E i \in 1..Len(tasks), ok \in BOOLEAN : SendResolve(i, ok)

Spec == Init /\ [][Next]_vars

(* One handler task, from its spawn to its end, on every event of Events  *)
(* and every resolution of its join, synthesis call and send.  It starts  *)
(* in the state the loop leaves right after spawning the first handler.   *)

InitHandler ==
    /\ env \in {E \in SUBSET EnvNames : "DISCORD_TOKEN" \in E}
    /\ mainPc = "loop"
    /\ \E e \in Events : tasks = <<NewTask(e)>> /\ cache = <<e>>
    /\ warnings = [nonfatal |-> 0, fatal |-> 0]
    /\ sent = <<>>
    /\ connected = {}
    /\ trackdata = {}
    /\ voice = {}

NextHandler ==
    \/ Dispatch(1)
    \/ SongbirdProcess(1)
    \/ \E r \in JoinResults : JoinResolve(1, r)
    \/ \E r \in SynthResponses : SynthResolve(1, r)
    \/ \E ok \in BOOLEAN : SendResolve(1, ok)

SpecHandler == InitHandler /\ [][NextHandler]_vars

(* A join that waits for the gateway.  songbird.join asks the gateway to   *)
(* move the bot into the channel and resolves Ok once songbird.process has *)
(* seen the voice-state and the voice-server update of the guild; the      *)
(* gateway delivers these two events while a join of the guild is pending. *)

\* the gateway delivers the update of this kind a pending join of g waits for
ReceiveVoiceUpdate(kind, g) ==
    /\ \E i \in 1..Len(tasks) :
          tasks[i].pc = "joining" /\ tasks[i].event.guild_id = g
    /\ \A j \in 1..Len(tasks) : tasks[j].event # OtherEvent(kind, g)
    /\ Receive(OtherEvent(kind, g))

\* both updates of the guild have passed through songbird.process
VoiceReady(g) == \A kind \in VoiceUpdateKinds : <<g, kind>> \in voice

\* songbird.join resolves Ok on the updates it waited for
JoinAwaited(i) ==
    /\ i \in DOMAIN tasks
    /\ VoiceReady(tasks[i].event.guild_id)
    /\ JoinResolve(i, "Ok")

VoiceEvents ==
    {Message("!join", g) : g \in Guilds} \cup {Message("!ping", g) : g \in Guilds}

InitVoice ==
    /\ env = EnvNames
    /\ mainPc = "loop"
    /\ tasks = <<>>
    /\ cache = <<>>
    /\ warnings = [nonfatal |-> 0, fatal |-> 0]
    /\ sent = <<>>
    /\ connected = {}
    /\ trackdata = {}
    /\ voice = {}

NextVoice ==
    \/ \E e \in VoiceEvents : ReceiveEvent(e)
    \/ \E kind \in VoiceUpdateKinds, g \in Guilds : ReceiveVoiceUpdate(kind, g)
    \/ ReceiveFatal
    \/ \E i \in 1..Len(tasks) : Dispatch(i)
    \/ \E i \in 1..Len(tasks) : SongbirdProcess(i)
    \/ \E i \in 1..Len(tasks) : JoinAwaited(i)
    \/ \E i \in 1..Len(tasks) : JoinResolve(i, "TimedOut")
    \/ \E i \in 1..Len(tasks) : SendResolve(i, TRUE)

\* fair scheduling of the spawned tasks, a gateway that delivers the updates
\* a pending join waits for, and a join that resolves once they are processed
FairVoice ==
    /\ WF_vars(\E kind \in VoiceUpdateKinds, g \in Guilds : ReceiveVoiceUpdate(kind, g))
    /\ WF_vars(\E i \in 1..Len(tasks) : Dispatch(i))
    /\ WF_vars(\E i \in 1..Len(tasks) : SongbirdProcess(i))
    /\ WF_vars(\E i \in 1..Len(tasks) : JoinAwaited(i))

SpecVoice == InitVoice /\ [][NextVoice]_vars /\ FairVoice

(* The bot's replies coming back.  The gateway reports every message     *)
(* created in a channel the bot sees, its own included, and handle_event   *)
(* looks at the content only: a delivered reply returns as a MessageCreate *)
(* event with the reply's content, in the channel it was sent to.          *)

\* the MessageCreate event of the message that request k created
EchoOf(k) ==
    [kind |-> "MessageCreate", content |-> sent[k].content,
     guild_id |-> tasks[sent[k].task].event.guild_id,
     channel_id |-> sent[k].channel_id]

\* the loop receives the bot's own k-th message, after the k events before it
ReceiveEcho(k) ==
    /\ k = Len(tasks)
    /\ tasks[sent[k].task].sendResult = "Ok"
    /\ ReceiveEvent(EchoOf(k))

UserCommands == {Message(c, g) : c \in Commands, g \in Guilds \cup {NoGuild}}

InitEcho ==
    /\ env \in {E \in SUBSET EnvNames : "DISCORD_TOKEN" \in E}
    /\ mainPc = "loop"
    /\ \E e \in UserCommands : tasks = <<NewTask(e)>> /\ cache = <<e>>
    /\ warnings = [nonfatal |-> 0, fatal |-> 0]
    /\ sent = <<>>
    /\ connected = {}
    /\ trackdata = {}
    /\ voice = {}

NextEcho ==
    \/ \E k \in 1..Len(sent) : ReceiveEcho(k)
    \/ \E i \in 1..Len(tasks) : Dispatch(i)
    \/ \E i \in 1..Len(tasks) : SongbirdProcess(i)
    \/ \E i \in 1..Len(tasks), r \in JoinResults : JoinResolve(i, r)
    \/ \E i \in 1..Len(tasks), r \in SynthResponses : SynthResolve(i, r)
    \/ \E i \in 1..Len(tasks), ok \in BOOLEAN : SendResolve(i, ok)

SpecEcho == InitEcho /\ [][NextEcho]_vars

TypeOK ==
    /\ env \subseteq EnvNames
    /\ mainPc \in {"startup", "loop", "failed", "returned"}
    /\ Len(tasks) <= MaxEvents + 2
    /\ \A i \in 1..Len(tasks) :
          /\ tasks[i].event \in
                Events \cup {OtherEvent(kind, g) : kind \in VoiceUpdateKinds, g \in Guilds}
                       \cup {EchoOf(k) : k \in 1..Len(sent)}
          /\ tasks[i].pc \in {"spawned", "joining", "synth", "sending", "done"}
          /\ tasks[i].result \in {"Running", "Ok", "Err", "Panic"}
    /\ warnings.nonfatal \in 0..MaxRecvErrors
    /\ warnings.fatal \in 0..1
    /\ connected \subseteq Guilds
    /\ trackdata \subseteq Guilds
    /\ voice \subseteq Guilds \X VoiceUpdateKinds

----------------------------------------------------------------------------
(* Claims *)

\* the create_message requests task i issued, in order
RequestsOf(i) == SelectSeq(sent, LAMBDA r : r.task = i)

IsMessage(e, content) == e.kind = "MessageCreate" /\ e.content = content

TextReply(i, content) ==
    [task |-> i, channel_id |-> tasks[i].event.channel_id, content |-> content,
     attachments |-> <<>>, embeds |-> <<>>]

\* C1: a handler of a message with content exactly "!ping" issues exactly one
\* request, to the message's channel, with content exactly "Pong!" and nothing
\* attached; it makes no join attempt and no synthesis call, changes neither
\* the voice connections nor the track-handle map, and ends Ok, or Err when
\* the send failed.
C1_PingRepliesPongOnce ==
    \A i \in 1..Len(tasks) :
        IsMessage(tasks[i].event, "!ping") =>
            /\ RequestsOf(i) = IF tasks[i].pc = "spawned" THEN <<>>
                               ELSE << TextReply(i, "Pong!") >>
            /\ sent = RequestsOf(i)
            /\ tasks[i].pc \in {"spawned", "sending", "done"}
            /\ tasks[i].joins = <<>>
            /\ tasks[i].synths = <<>>
            /\ connected = {}
            /\ trackdata = {}
            /\ tasks[i].pc = "done" =>
                  \/ tasks[i].result = "Ok"
                  \/ tasks[i].result = "Err" /\ tasks[i].error = "send failed"

C1_Witness ==
    \E i \in 1..Len(tasks) :
        /\ IsMessage(tasks[i].event, "!ping")
        /\ tasks[i].pc = "done"
        /\ tasks[i].result = "Ok"
        /\ Len(sent) = 1

IsCommandMessage(e) ==
    e.kind = "MessageCreate" /\ e.content \in {"!ping", "!join", "!leave", "!test"}

\* C2: a handler of an event that is not a message whose content is exactly
\* one of "!ping", "!join", "!leave", "!test" issues no request, makes no join
\* attempt and no synthesis call, and ends Ok at its first step.
C2_OtherEventsNoOutbound ==
    \A i \in 1..Len(tasks) :
        ~IsCommandMessage(tasks[i].event) =>
            /\ RequestsOf(i) = <<>>
            /\ tasks[i].joins = <<>>
            /\ tasks[i].synths = <<>>
            /\ tasks[i].pc \in {"spawned", "done"}
            /\ tasks[i].pc = "done" => tasks[i].result = "Ok"

C2_Witness ==
    \E i \in 1..Len(tasks) :
        /\ IsMessage(tasks[i].event, "!PING")
        /\ tasks[i].pc = "done"
        /\ sent = <<>>

\* C3: a handler of a "!join" message without guild identifier ends, at its
\* first step, with the error "Can't join a non-guild channel.", having made
\* no join attempt and issued no request.
C3_JoinOutsideGuildFails ==
    \A i \in 1..Len(tasks) :
        (IsMessage(tasks[i].event, "!join") /\ tasks[i].event.guild_id = NoGuild) =>
            /\ tasks[i].joins = <<>>
            /\ RequestsOf(i) = <<>>
            /\ tasks[i].pc \in {"spawned", "done"}
            /\ tasks[i].pc = "done" =>
                  /\ tasks[i].result = "Err"
                  /\ tasks[i].error = "Can't join a non-guild channel."

C3_Witness ==
    \E i \in 1..Len(tasks) :
        /\ IsMessage(tasks[i].event, "!join")
        /\ tasks[i].event.guild_id = NoGuild
        /\ tasks[i].pc = "done"
        /\ tasks[i].result = "Err"

\* C4: a handler of a "!join" message with guild identifier g makes exactly one
\* join attempt, for g on channel 1001440920299905096; it issues no request
\* before that attempt resolves and exactly one after it: "Joined <#..>!" when
\* the join succeeded, "Failed to join <#..>! Why: <detail>" when it failed.
\* The handler ends Ok, or Err when the send failed: a failed join alone never
\* makes it end in an error.
C4_JoinOnceThenReply ==
    \A i \in 1..Len(tasks) :
        (IsMessage(tasks[i].event, "!join") /\ tasks[i].event.guild_id # NoGuild) =>
            /\ tasks[i].joins =
                  IF tasks[i].pc = "spawned" THEN <<>>
                  ELSE << [guild_id |-> tasks[i].event.guild_id,
                           channel_id |-> <<1,0,0,1,4,4,0,9,2,0,2,9,9,9,0,5,0,9,6>>] >>
            /\ tasks[i].pc \in {"spawned", "joining"} =>
                  RequestsOf(i) = <<>> /\ tasks[i].joinResult = "None"
            /\ tasks[i].pc \in {"sending", "done"} =>
                  /\ tasks[i].joinResult # "None"
                  /\ RequestsOf(i) =
                        << TextReply(i,
                              IF tasks[i].joinResult = "Ok"
                              THEN "Joined <#1001440920299905096>!"
                              ELSE "Failed to join <#1001440920299905096>! Why: "
                                       \o tasks[i].joinResult) >>
            /\ tasks[i].pc = "done" =>
                  \/ tasks[i].result = "Ok"
                  \/ tasks[i].result = "Err" /\ tasks[i].error = "send failed"

C4_Witness ==
    \E i \in 1..Len(tasks) :
        /\ IsMessage(tasks[i].event, "!join")
        /\ tasks[i].joinResult = "TimedOut"
        /\ tasks[i].pc = "done"
        /\ tasks[i].result = "Ok"

\* a "!test" handler whose get_audio_data call has resolved
SynthResolved(i) ==
    IsMessage(tasks[i].event, "!test") /\ tasks[i].response # <<>>

\* C5: when the synthesis call of a "!test" handler succeeds with buffer B, the
\* handler issues exactly one request; its content is "test!" and it carries
\* exactly one attachment, named "test.ogg", whose bytes are B.
C5_AttachmentCarriesAudio ==
    \A i \in 1..Len(tasks) :
        (SynthResolved(i) /\ tasks[i].response[1].ok) =>
            RequestsOf(i) =
                << [task |-> i, channel_id |-> tasks[i].event.channel_id,
                    content |-> "test!",
                    attachments |-> << [filename |-> "test.ogg",
                                        file |-> tasks[i].response[1].data,
                                        id |-> 1] >>,
                    embeds |-> <<>>] >>

C5_Witness ==
    \E i \in 1..Len(tasks) :
        /\ SynthResolved(i)
        /\ tasks[i].response[1].ok
        /\ tasks[i].response[1].data = <<0, 255>>
        /\ tasks[i].pc = "done"
        /\ tasks[i].result = "Ok"

\* the description the claim gives for the status codes of the model
ExpectedDescription(status) ==
    CASE status = 404 -> "404: Not Found"
      [] status = 500 -> "500: Internal Server Error"
      [] status = 599 -> "599: <unknown status code>"

\* C6: when the synthesis call of a "!test" handler fails with HTTP status s,
\* the embed of the request has the API-request-error title and the description
\* "<s>: <reason phrase of s>", with "<unknown status code>" for a status
\* without reason phrase; for 500 it is "500: Internal Server Error".
C6_StatusEmbedDescription ==
    \A i \in 1..Len(tasks) :
        (SynthResolved(i) /\ ~tasks[i].response[1].ok /\ tasks[i].response[1].status # -1) =>
            /\ Len(RequestsOf(i)) = 1
            /\ Len(RequestsOf(i)[1].embeds) = 1
            /\ RequestsOf(i)[1].embeds[1].title = "APIリクエストエラー"
            /\ RequestsOf(i)[1].embeds[1].description =
                  << ExpectedDescription(tasks[i].response[1].status) >>

C6_Witness ==
    \E i \in 1..Len(tasks) :
        /\ SynthResolved(i)
        /\ ~tasks[i].response[1].ok
        /\ tasks[i].response[1].status = 500
        /\ RequestsOf(i)[1].embeds[1].description = << "500: Internal Server Error" >>

\* C7: when the synthesis call of a "!test" handler fails without HTTP status,
\* the embed of the request has the request-failed title and no description.
C7_NoStatusEmbed ==
    \A i \in 1..Len(tasks) :
        (SynthResolved(i) /\ ~tasks[i].response[1].ok /\ tasks[i].response[1].status = -1) =>
            /\ Len(RequestsOf(i)) = 1
            /\ Len(RequestsOf(i)[1].embeds) = 1
            /\ RequestsOf(i)[1].embeds[1].title = "API no rikuesuto ni shippai shimashita."
            /\ RequestsOf(i)[1].embeds[1].description = <<>>

C7_Witness ==
    \E i \in 1..Len(tasks) :
        /\ SynthResolved(i)
        /\ ~tasks[i].response[1].ok
        /\ tasks[i].response[1].status = -1
        /\ tasks[i].pc = "done"

\* C8: a "!test" handler whose synthesis call failed, with or without HTTP
\* status, does not end at that failure: it issues exactly one request, which
\* carries one embed and no attachment, and it ends Ok when that send
\* succeeds (Err only when the send itself fails).
C8_SynthFailureNotPropagated ==
    \A i \in 1..Len(tasks) :
        (SynthResolved(i) /\ ~tasks[i].response[1].ok) =>
            /\ tasks[i].pc \in {"sending", "done"}
            /\ Len(RequestsOf(i)) = 1
            /\ Len(RequestsOf(i)[1].embeds) = 1
            /\ RequestsOf(i)[1].attachments = <<>>
            /\ tasks[i].pc = "sending" => tasks[i].result = "Running"
            /\ tasks[i].pc = "done" =>
                  /\ tasks[i].sendResult \in {"Ok", "Failed"}
                  /\ tasks[i].sendResult = "Ok" => tasks[i].result = "Ok"
                  /\ tasks[i].sendResult = "Failed" =>
                        tasks[i].result = "Err" /\ tasks[i].error = "send failed"

C8_Witness ==
    \E i \in 1..Len(tasks) :
        /\ SynthResolved(i)
        /\ tasks[i].pc = "done"
        /\ ~tasks[i].response[1].ok
        /\ tasks[i].response[1].status = -1
        /\ tasks[i].sendResult = "Ok"
        /\ tasks[i].result = "Ok"

\* C9: in the event loop a receive error classified as fatal ends the loop:
\* main returns, and from then on no event is received, cached or handed to a
\* handler.  A receive error classified as non-fatal is logged and skipped:
\* the step updates no cache, spawns no handler, sends nothing, and leaves
\* main in its loop.  main has returned exactly when a fatal error was logged.
C9_FatalStopsNonFatalSkips ==
    [][ /\ mainPc = "returned" => FALSE
        /\ warnings'.fatal > warnings.fatal =>
              /\ mainPc = "loop" /\ mainPc' = "returned"
              /\ tasks' = tasks /\ cache' = cache /\ sent' = sent
        /\ warnings'.nonfatal > warnings.nonfatal =>
              /\ mainPc = "loop" /\ mainPc' = "loop"
              /\ tasks' = tasks /\ cache' = cache /\ sent' = sent
        /\ (mainPc' = "returned") <=> (warnings'.fatal > 0)
        /\ Len(cache') = Len(tasks')
      ]_vars

C9_Witness ==
    /\ mainPc = "returned"
    /\ warnings = [nonfatal |-> 1, fatal |-> 1]
    /\ Len(tasks) = MaxEvents
    /\ \E i \in 1..Len(tasks) : tasks[i].pc = "done"

\* C10: whenever the create_message request of a handler fails, in any command
\* arm (!ping, !join, !leave, !test with attachment or embed), the handler ends
\* by returning an error value, having issued that one request only.
C10_SendFailureReturnsError ==
    \A i \in 1..Len(tasks) :
        tasks[i].sendResult = "Failed" =>
            /\ tasks[i].result = "Err"
            /\ Len(RequestsOf(i)) = 1

\* C11: in a run where VOICETEXT_API is not set, main fails before its loop:
\* it never reaches the loop and no event is received or handled.
C11_MissingCredentialStopsStartup ==
    "VOICETEXT_API" \notin env =>
        /\ mainPc \in {"startup", "failed"}
        /\ tasks = <<>>
        /\ cache = <<>>

\* C12: the track-handle map has an entry for every guild songbird holds a
\* voice connection for (the entry a successful !join creates), and for no
\* other guild.
C12_TrackEntryWhileConnected ==
    trackdata = connected

\* the outbound actions of task i: each join attempt, each reply, and each
\* synthesis call together with the reply that carries its outcome
OutboundCount(i) ==
    Len(tasks[i].joins)
        + (IF tasks[i].synths # <<>> THEN Len(tasks[i].synths) ELSE Len(RequestsOf(i)))

JoinsInGuild(i) ==
    IsMessage(tasks[i].event, "!join") /\ tasks[i].event.guild_id # NoGuild

\* C13 as stated: no event leads to more than one outbound action.
C13_AtMostOneOutbound ==
    \A i \in 1..Len(tasks) : OutboundCount(i) <= 1

\* C13, amended: every event leads to at most one reply, at most one join
\* attempt and at most one synthesis call, and to at most one outbound action
\* in total, except a "!join" message with guild identifier, which leads to
\* two: one join attempt and then one reply.
C13_OneOutboundExceptJoin ==
    \A i \in 1..Len(tasks) :
        /\ Len(RequestsOf(i)) <= 1
        /\ Len(tasks[i].joins) <= 1
        /\ Len(tasks[i].synths) <= 1
        /\ OutboundCount(i) <= (IF JoinsInGuild(i) THEN 2 ELSE 1)
        /\ (JoinsInGuild(i) /\ tasks[i].pc \in {"sending", "done"}) => OutboundCount(i) = 2

C13_Witness ==
    \E i \in 1..Len(tasks) :
        /\ JoinsInGuild(i)
        /\ tasks[i].pc = "done"
        /\ tasks[i].joinResult = "Ok"
        /\ Len(tasks[i].joins) = 1
        /\ Len(RequestsOf(i)) = 1

\* C14: the loop never waits for a handler: whenever main is in its loop (and
\* the gateway has an event left to deliver) the next event can be received,
\* whatever the handlers spawned so far are doing.  Handlers are not ordered:
\* C14_Witness is a reachable state in which, of two command messages of one
\* guild received in the order a, b, the reply to b was issued before the
\* reply to a.
C14_LoopNeverWaits ==
    (mainPc = "loop" /\ Len(tasks) < MaxEvents) =>
        \A e \in LoopEvents : ENABLED ReceiveEvent(e)

C14_Witness ==
    /\ Len(tasks) >= 2
    /\ IsCommandMessage(tasks[1].event)
    /\ IsCommandMessage(tasks[2].event)
    /\ tasks[1].event.guild_id = tasks[2].event.guild_id
    /\ tasks[1].event.guild_id # NoGuild
    /\ Len(sent) = 2
    /\ sent[1].task = 2
    /\ sent[2].task = 1

\* C15: a handler of a "!leave" message issues exactly one request, the static
\* text "Pong!", and no step of it changes the voice connections or the
\* track-handle map: the bot is connected in the guild after the handler
\* exactly if it was before.
C15_LeaveOnlyReplies ==
    [][ \A i \in 1..Len(tasks) :
            IsMessage(tasks[i].event, "!leave") =>
                /\ tasks'[i] # tasks[i] =>
                      /\ connected' = connected
                      /\ trackdata' = trackdata
                      /\ tasks'[i].joins = <<>>
                /\ tasks'[i].pc \in {"spawned", "sending", "done"}
                /\ (RequestsOf(i) = IF tasks[i].pc = "spawned" THEN <<>>
                                    ELSE << TextReply(i, "Pong!") >>)'
      ]_vars

C15_Witness ==
    \E i \in 1..Len(tasks) :
        /\ IsMessage(tasks[i].event, "!leave")
        /\ tasks[i].pc = "done"
        /\ tasks[i].result = "Ok"
        /\ tasks[i].event.guild_id \in connected
        /\ Len(sent) = 2
        /\ sent[2].task = i

\* C17: the cache has been updated with the event of every spawned handler,
\* in receipt order: for a handler of the i-th event the first i events the
\* cache was updated with are the first i events received, its own included.
C17_CacheUpdatedBeforeSpawn ==
    \A i \in 1..Len(tasks) :
        /\ Len(cache) >= i
        /\ \A j \in 1..i : cache[j] = tasks[j].event

C17_Witness ==
    \E i \in 1..Len(tasks) :
        /\ i = 2
        /\ JoinsInGuild(i)
        /\ tasks[i].pc = "done"
        /\ tasks[i].sendResult = "Ok"
        /\ cache[1] = tasks[1].event
        /\ cache[2] = tasks[2].event
        /\ cache[1] # cache[2]

\* C16: every handler of a "!test" message gets past its synthesis call and
\* ends having attempted exactly one reply (the attachment or the embed).
C16_TestHandlerRepliesOnce ==
    \A i \in 1..Len(tasks) :
        (IsMessage(tasks[i].event, "!test") /\ tasks[i].pc = "done") =>
            /\ Len(tasks[i].synths) = 1
            /\ tasks[i].response # <<>>
            /\ Len(RequestsOf(i)) = 1

\* C18: every received event is forwarded to songbird.process at most once,
\* by a task of its own that starts with the handler, and (as long as main
\* has not returned) exactly once eventually, whatever the handler's command
\* dispatch is waiting for.  A handler waiting in songbird.join does not stop
\* the loop: the gateway's voice-state and voice-server updates are received
\* and forwarded meanwhile, and the join eventually resolves unless main
\* returns first: again and again a state is reached in which every received
\* event has been forwarded and no join is pending.
C18_ForwardedOnceJoinResolves ==
    /\ [](\A i \in 1..Len(tasks) :
            /\ tasks[i].forwarded = (IF tasks[i].sb = "done" THEN 1 ELSE 0)
            /\ (tasks[i].sb = "none") <=> (tasks[i].pc = "spawned"))
    /\ []<>(\/ mainPc = "returned"
            \/ \A i \in 1..Len(tasks) :
                  tasks[i].forwarded = 1 /\ tasks[i].pc # "joining")

C18_Witness ==
    /\ mainPc = "loop"
    /\ \E i \in 1..Len(tasks) :
          /\ JoinsInGuild(i)
          /\ tasks[i].joinResult = "Ok"
          /\ VoiceReady(tasks[i].event.guild_id)
          /\ \E j \in 1..Len(tasks) :
                /\ j > i
                /\ tasks[j].event.kind = "VoiceServerUpdate"
                /\ tasks[j].forwarded = 1
    /\ \A i \in 1..Len(tasks) : tasks[i].forwarded = 1

\* C19: no create_message request of the bot carries a content that the
\* dispatcher matches as a command; so the handler of a reply the gateway
\* feeds back as a MessageCreate event issues no request, joins nothing and
\* calls no synthesis, and one user command leads to at most one reply in all.
C19_RepliesAreNoCommands ==
    /\ \A k \in 1..Len(sent) :
          sent[k].content \notin Commands /\ MatchContent(sent[k].content) = "none"
    /\ \A i \in 2..Len(tasks) :
          /\ tasks[i].event \in {EchoOf(k) : k \in 1..Len(sent)}
          /\ RequestsOf(i) = <<>>
          /\ tasks[i].joins = <<>>
          /\ tasks[i].synths = <<>>
          /\ tasks[i].pc \in {"spawned", "done"}
          /\ tasks[i].result \in {"Running", "Ok"}
    /\ Len(sent) <= 1

C19_Witness ==
    /\ Len(tasks) = 2
    /\ Len(sent) = 1
    /\ tasks[1].pc = "done" /\ tasks[1].sendResult = "Ok"
    /\ tasks[2].event = EchoOf(1)
    /\ tasks[2].pc = "done" /\ tasks[2].result = "Ok"
    /\ tasks[2].forwarded = 1

====
